---- MODULE Spec2Model ----
(***************************************************************************)
(* Model of the mmspd-explorer-uploader "run" command                      *)
(* (openrank/mmspd/exploreruploader/cmd/run.py and cmd/__init__.py).       *)
(*                                                                         *)
(* The program is one asyncio event loop: the cycle driver (run) and the   *)
(* uploader tasks (upload_to_s3) are coroutines that keep the thread until *)
(* they reach an await that really suspends (a put on a full queue, a get  *)
(* on an empty queue, a network call, gather, sleep).  The variable        *)
(* "running" is the coroutine that holds the thread.                       *)
(*                                                                         *)
(* Text is modelled as a sequence of character codes (digits are 0..9),    *)
(* a path as a sequence of names, a datetime as microseconds since 1970.   *)
(***************************************************************************)
EXTENDS Integers, Sequences, FiniteSets, TLC

\* ------------------------------------------------------------------------
\* Bounds of the model
\* ------------------------------------------------------------------------
MaxWorkers == 2      \* --s3-uploaders ranges over MinWorkers..MaxWorkers
MaxFiles == 2        \* regular files in one archive
MaxCycles == 2       \* iterations of the "while True" of run
MaxWrites == 2       \* snapshots written into the directory by its producer
MaxFailures == 1     \* remote calls that raise in one cycle

\* ------------------------------------------------------------------------
\* Text, integers and timestamps
\* ------------------------------------------------------------------------
Digits == 0 .. 9

\* character code of a letter (anything that is not a digit)
Letter(c) == 10 + c

NameJson == "json"
NameZip == "zip"

RECURSIVE IntOf(_)
IntOf(s) == IF s = << >> THEN 0
            ELSE IntOf(SubSeq(s, 1, Len(s) - 1)) * 10 + s[Len(s)]

\* int(path.stem): ValueError unless the stem is a non-empty digit string
int(s) ==
    IF s # << >> /\ \A k \in 1 .. Len(s) : s[k] \in Digits
    THEN [ok |-> TRUE, val |-> IntOf(s)]
    ELSE [ok |-> FALSE, val |-> 0]

\* str(ts): the decimal digits of a non-negative integer
RECURSIVE str(_)
str(n) == IF n < 10 THEN << n >> ELSE str(n \div 10) \o << n % 10 >>

\* A timestamp string.  fmt is "frac" (YYYY-MM-DDThh:mm:ss.ffffff+hhmm),
\* "whole" (YYYY-MM-DDThh:mm:ss+hhmm), "garbage" (a string in neither
\* format), "nonstr" (a JSON value that is not a string) or "missing" (the
\* key is not in the manifest).  wall is the wall-clock time in seconds,
\* frac the microseconds, off the UTC offset in seconds.
TimeStr(fmt, wall, frac, off) ==
    [fmt |-> fmt, wall |-> wall, frac |-> frac, off |-> off]

\* datetime.strptime(s, '%Y-%m-%dT%H:%M:%S.%f%z')
strptime_frac(s) ==
    IF s.fmt = "nonstr" THEN [ok |-> FALSE, exc |-> "TypeError", dt |-> 0]
    ELSE IF s.fmt = "frac"
    THEN [ok |-> TRUE, exc |-> "", dt |-> (s.wall - s.off) * 1000000 + s.frac]
    ELSE [ok |-> FALSE, exc |-> "ValueError", dt |-> 0]

\* datetime.strptime(s, '%Y-%m-%dT%H:%M:%S%z')
strptime_whole(s) ==
    IF s.fmt = "nonstr" THEN [ok |-> FALSE, exc |-> "TypeError", dt |-> 0]
    ELSE IF s.fmt = "whole"
    THEN [ok |-> TRUE, exc |-> "", dt |-> (s.wall - s.off) * 1000000]
    ELSE [ok |-> FALSE, exc |-> "ValueError", dt |-> 0]

\* parse_timestamp: the fractional form first, the whole-second form on
\* ValueError; any other exception of the first attempt propagates.
parse_timestamp(s) ==
    LET first == strptime_frac(s)
    IN  IF first.ok \/ first.exc # "ValueError" THEN first
        ELSE strptime_whole(s)

\* manifest[key] followed by parse_timestamp: KeyError when the key is absent
field(s) ==
    IF s.fmt = "missing" THEN [ok |-> FALSE, exc |-> "KeyError", dt |-> 0]
    ELSE parse_timestamp(s)

\* round(ts.timestamp() * 1000): microseconds to milliseconds, half to even
round_ms(us) ==
    LET q == us \div 1000
        r == us % 1000
    IN  IF r < 500 THEN q
        ELSE IF r > 500 THEN q + 1
        ELSE IF q % 2 = 0 THEN q ELSE q + 1

\* the timestamps in descending order
RECURSIVE sorted_descending(_)
sorted_descending(S) ==
    IF S = {} THEN << >>
    ELSE LET m == CHOOSE x \in S : \A y \in S : y <= x
         IN  << m >> \o sorted_descending(S \ {m})

\* sorted(timestamps): the ascending sequence of a finite set of integers
RECURSIVE sorted(_)
sorted(S) ==
    IF S = {} THEN << >>
    ELSE LET m == CHOOSE x \in S : \A y \in S : x <= y
         IN  << m >> \o sorted(S \ {m})

\* the least key instead of the greatest
max_least(S) == CHOOSE x \in S : \A y \in S : x <= y

\* max(timestamps_by_epoch.keys())
max(S) == CHOOSE x \in S : \A y \in S : y <= x

\* ------------------------------------------------------------------------
\* The scanned directory and what its producer writes into it
\* ------------------------------------------------------------------------
Missing == TimeStr("missing", 0, 0, 0)
Garbage == TimeStr("garbage", 0, 0, 0)
NonStr == TimeStr("nonstr", 0, 0, 0)

\* three epoch strings; the first two denote the same instant
EpochA == TimeStr("whole", 60, 0, 0)
EpochA2 == TimeStr("frac", 3660, 0, 3600)
EpochB == TimeStr("whole", 120, 0, 0)

\* an issuanceDate string that denotes us microseconds since 1970
Issued(us) == TimeStr("frac", us \div 1000000, us % 1000000, 0)

\* the content of a manifest file: how loading it ends, and its three fields
Manifest(load, epoch, issuanceDate, effectiveDate) ==
    [load |-> load, epoch |-> epoch, issuanceDate |-> issuanceDate,
     effectiveDate |-> effectiveDate]

\* a .zip beside the manifest: "missing", "corrupt" or "ok" with that many
\* regular files and sub-directories at its top level
Archive(state, files, dirs) == [state |-> state, files |-> files, dirs |-> dirs]

NoFile == [present |-> FALSE,
           manifest |-> Manifest("OSError", Missing, Missing, Missing),
           zip |-> Archive("missing", 0, 0)]

Stem9 == << 9 >>
Stem10 == << 1, 0 >>
Stem09 == << 0, 9 >>
StemLatest == << Letter(1) >>
Stems == {Stem9, Stem10, Stem09, StemLatest}

\* manifests that never reach the archive
BrokenManifests(ts) ==
    { Manifest("JSONDecodeError", Missing, Missing, Missing),
      Manifest("UnicodeDecodeError", Missing, Missing, Missing),
      Manifest("ok", EpochA, Issued(ts * 1000), Missing),
      Manifest("ok", EpochA, Issued(ts * 1000), Garbage),
      Manifest("ok", NonStr, Issued(ts * 1000), EpochA),
      Manifest("ok", EpochA, Issued(ts * 1000 + 1000), EpochA) }

\* manifests whose issuanceDate rounds to ts milliseconds
GoodManifests(ts) ==
    { Manifest("ok", EpochA, Issued(ts * 1000), EpochA),
      Manifest("ok", EpochA2, Issued(ts * 1000 + 400), EpochA),
      Manifest("ok", EpochB, Issued(ts * 1000 - 500 + (ts % 2)), EpochB) }

Archives ==
    { Archive("missing", 0, 0), Archive("corrupt", 0, 0), Archive("ok", 1, 1) }
    \cup { Archive("ok", k, 0) : k \in 0 .. MaxFiles }

\* what the producer may write under a stem: every kind of snapshot under
\* 9, two well-formed ones under 10, one under 09 and one under "latest"
Snapshot(m, z) == [present |-> TRUE, manifest |-> m, zip |-> z]

Snapshots(stem) ==
    LET ts == IF int(stem).ok THEN int(stem).val ELSE 0
        one == Archive("ok", 1, 0)
        plain == Manifest("ok", EpochA, Issued(ts * 1000), EpochA)
        later == Manifest("ok", EpochB, Issued(ts * 1000), EpochB)
    IN  IF stem = Stem9
        THEN { Snapshot(m, one) : m \in BrokenManifests(ts) \cup GoodManifests(ts) }
             \cup { Snapshot(plain, z) : z \in Archives }
        ELSE IF stem = Stem10
        THEN { Snapshot(plain, one), Snapshot(later, Archive("ok", MaxFiles, 0)) }
        ELSE { Snapshot(later, one) }

\* ------------------------------------------------------------------------
\* State
\* ------------------------------------------------------------------------
VARIABLES
    s3_uploaders,         \* args.s3_uploaders
    directory,            \* args.directory: stem -> manifest and archive
    writes,               \* snapshots written so far by the producer
    manifest_by_ts,       \* dict: timestamp -> manifest
    timestamps_by_epoch,  \* dict: epoch -> set of timestamps
    pc,                   \* where run() stands
    cycle,                \* iterations of "while True" started
    running,              \* the coroutine that holds the thread
    s3_upload_queue,      \* asyncio.Queue: None or (path, key)
    uploaders,            \* worker index -> where upload_to_s3 stands
    bucket,               \* worker index -> bucket is not None
    job,                  \* worker index -> the (path, key) it handles
    todo,                 \* entries of directory.iterdir() not yet visited
    cur,                  \* the manifest whose archive is being enqueued
    pending,              \* its upload jobs not yet put
    after,                \* how the try block ended
    scratch,              \* the temporary directories: path -> kind
    selected,             \* max_epoch of this cycle
    list_,                \* what was dumped into list.json this cycle
    exc,                  \* the exception that left the try block
    exit_status,          \* what main() returned
    enqueued,             \* items put into this cycle's queue, in order
    seen,                 \* worker index -> sentinels it dequeued
    dequeued,             \* jobs taken from this cycle's queue, in order
    attempts,             \* job -> how its attempts ended, in order
    connects,             \* worker index -> times it entered session.resource
    published             \* (max_epoch, list_) of every dump, in order

vars == << s3_uploaders, directory, writes, manifest_by_ts,
           timestamps_by_epoch, pc, cycle, running, s3_upload_queue,
           uploaders, bucket, job, todo, cur, pending, after, scratch,
           selected, list_, exc, exit_status, enqueued, seen, dequeued,
           attempts, connects, published >>

MinWorkers == 0 - 1
WorkerCounts == MinWorkers .. MaxWorkers

\* range(args.s3_uploaders)
Workers == 0 .. s3_uploaders - 1

DriverTask == << "run", 0 >>
Idle == << "idle", 0 >>

None == << >>

NoCur == [ts0 |-> 0, stem |-> << >>,
          manifest |-> NoFile.manifest, epoch |-> 0]

\* ------------------------------------------------------------------------
\* Names, paths and the temporary directory
\* ------------------------------------------------------------------------
TmpName(c) == << Letter(2) >> \o str(c)
FileName(k) == << Letter(3) >> \o str(k)
DirName(k) == << Letter(4) >> \o str(k)
ListJsonName == << Letter(5) >>
KeyFiles == << Letter(6) >>
KeyListJson_copied == << << Letter(7) >>, << Letter(8) >>, << Letter(9) >> >>
KeyListJson == << << Letter(7) >>, << Letter(8) >>, ListJsonName >>
KeyIndexerScores == << << Letter(7) >>, << Letter(8) >>, << Letter(9) >> >>
indexer_cache == << << Letter(10) >> >>

\* tempfile.mkdtemp() of cycle c
mkdtemp(c) == << TmpName(c) >>

\* path.iterdir() inside the temporary tree
children(fs, path) ==
    { p \in DOMAIN fs : Len(p) = Len(path) + 1 /\ SubSeq(p, 1, Len(path)) = path }

\* path2.relative_to(tmpdir)
relative_to(path, base) == SubSeq(path, Len(base) + 1, Len(path))

\* what z.extractall(zipdir) creates
extracted(zipdir, z) ==
    [p \in {zipdir}
           \cup { zipdir \o << FileName(k) >> : k \in 1 .. z.files }
           \cup { zipdir \o << DirName(k) >> : k \in 1 .. z.dirs }
           \cup { zipdir \o << DirName(k), FileName(1) >> : k \in 1 .. z.dirs }
       |-> IF p = zipdir \/ (Len(p) = Len(zipdir) + 1 /\ p[Len(p)][1] = Letter(4))
           THEN "dir" ELSE "file"]

\* the tree after new entries were created in it
created(fs, new) ==
    [p \in DOMAIN fs \cup DOMAIN new |-> IF p \in DOMAIN new THEN new[p] ELSE fs[p]]

\* the paths rm_rf(path) deletes: the children of a directory, recursively,
\* then the directory; a file; nothing when the path is missing
RECURSIVE unlinked(_, _)
unlinked(fs, path) ==
    IF path \notin DOMAIN fs THEN {}
    ELSE IF fs[path] = "dir"
    THEN {path} \cup UNION { unlinked(fs, child) : child \in children(fs, path) }
    ELSE {path}

\* rm_rf(path)
rm_rf(fs, path) == [p \in DOMAIN fs \ unlinked(fs, path) |-> fs[p]]

\* the upload job of one extracted file
FileJob(path2, ts0, tmpdir) ==
    << path2, << KeyFiles, str(ts0) >> \o relative_to(path2, tmpdir) >>

\* asyncio.Queue(args.s3_uploaders * 4)
maxsize == s3_uploaders * 4

\* a queue that is never full
full_never(q) == FALSE

\* Queue.full(): a queue of maxsize <= 0 is never full
full(q) == maxsize > 0 /\ Len(q) >= maxsize

\* directory.iterdir(): <stem>.json of every manifest, <stem>.zip of every archive
iterdir ==
    { << stem, NameJson >> : stem \in { t \in Stems : directory[t].present } }
    \cup { << stem, NameZip >> :
             stem \in { t \in Stems : directory[t].zip.state # "missing" } }

\* ------------------------------------------------------------------------
\* Initial state: run() has been entered, nothing has been scanned yet
\* ------------------------------------------------------------------------
Init ==
    /\ s3_uploaders \in WorkerCounts
    /\ directory = [stem \in Stems |-> NoFile]
    /\ writes = 0
    /\ manifest_by_ts = << >>
    /\ timestamps_by_epoch = << >>
    /\ pc = "start"
    /\ cycle = 0
    /\ running = DriverTask
    /\ s3_upload_queue = << >>
    /\ uploaders = << >>
    /\ bucket = << >>
    /\ job = << >>
    /\ todo = {}
    /\ cur = NoCur
    /\ pending = {}
    /\ after = ""
    /\ scratch = << >>
    /\ selected = 0
    /\ list_ = << >>
    /\ exc = ""
    /\ exit_status = 0
    /\ enqueued = << >>
    /\ seen = << >>
    /\ dequeued = << >>
    /\ attempts = << >>
    /\ connects = << >>
    /\ published = << >>

tmpdir == mkdtemp(cycle)

\* ------------------------------------------------------------------------
\* The producer of the directory (the score generator, outside this program)
\* ------------------------------------------------------------------------
Write(stem, snap) ==
    /\ pc = "start"
    /\ cycle < MaxCycles
    /\ writes < MaxWrites
    /\ snap \in Snapshots(stem)
    /\ directory[stem] # snap
    /\ directory' = [directory EXCEPT ![stem] = snap]
    /\ writes' = writes + 1
    /\ UNCHANGED << s3_uploaders, manifest_by_ts, timestamps_by_epoch, pc,
                    cycle, running, s3_upload_queue, uploaders, bucket, job,
                    todo, cur, pending, after, scratch, selected, list_,
                    exc, exit_status, enqueued, seen, dequeued, attempts,
                    connects, published >>

\* ------------------------------------------------------------------------
\* run(): the cycle driver
\* ------------------------------------------------------------------------
\* lines 86-95: a new queue, the uploader tasks, a new temporary directory,
\* and the listing of the directory
Start ==
    /\ pc = "start"
    /\ running = DriverTask
    /\ cycle < MaxCycles
    /\ cycle' = cycle + 1
    /\ s3_upload_queue' = << >>
    /\ uploaders' = [i \in Workers |-> "created"]
    /\ bucket' = [i \in Workers |-> FALSE]
    /\ job' = [i \in Workers |-> None]
    /\ seen' = [i \in Workers |-> 0]
    /\ dequeued' = << >>
    /\ attempts' = << >>
    /\ connects' = [i \in Workers |-> 0]
    /\ scratch' = created(scratch, [p \in {mkdtemp(cycle + 1)} |-> "dir"])
    /\ todo' = iterdir
    /\ enqueued' = << >>
    /\ selected' = 0
    /\ list_' = << >>
    /\ after' = ""
    /\ pc' = "scan"
    /\ UNCHANGED << s3_uploaders, directory, writes, manifest_by_ts,
                    timestamps_by_epoch, running, cur, pending, exc,
                    exit_status, published >>

Outcome(kind, e) == [kind |-> kind, exc |-> e]

\* a scan that takes no timestamp for known
known_never(ts0) == FALSE

\* line 103: ts0 in manifest_by_ts
known(ts0) == ts0 \in DOMAIN manifest_by_ts

\* an assert statement that checks nothing
consistent_unchecked(us, ts0) == TRUE

\* line 125: the condition of the assert statement
consistent(us, ts0) == round_ms(us) = ts0

\* lines 97-126: what the loop body does with one directory entry, up to
\* the opening of the archive
Examine(path) ==
    LET entry == directory[path[1]]
        ts0 == int(path[1])
        manifest == entry.manifest
        epoch == field(manifest.epoch)
        ts == field(manifest.issuanceDate)
        ets == field(manifest.effectiveDate)
        failed == IF ~epoch.ok THEN epoch ELSE IF ~ts.ok THEN ts ELSE ets
    IN  IF path[2] # NameJson THEN Outcome("ignore", "")
        ELSE IF ~ts0.ok THEN Outcome("continue", "ValueError")
        ELSE IF known(ts0.val) THEN Outcome("continue", "")
        ELSE IF manifest.load \in {"OSError", "JSONDecodeError"}
        THEN Outcome("continue", manifest.load)
        ELSE IF manifest.load # "ok" THEN Outcome("raise", manifest.load)
        ELSE IF ~failed.ok
        THEN IF failed.exc \in {"KeyError", "ValueError"}
             THEN Outcome("continue", failed.exc)
             ELSE Outcome("raise", failed.exc)
        ELSE IF ~consistent(ts.dt, ts0.val) THEN Outcome("raise", "AssertionError")
        ELSE IF entry.zip.state = "missing"
        THEN Outcome("raise", "FileNotFoundError")
        ELSE IF entry.zip.state # "ok" THEN Outcome("raise", "BadZipFile")
        ELSE Outcome("extract", "")

\* an entry that the loop passes over
ScanSkip(path) ==
    /\ pc = "scan"
    /\ running = DriverTask
    /\ path \in todo
    /\ Examine(path).kind \in {"ignore", "continue"}
    /\ todo' = todo \ {path}
    /\ UNCHANGED << s3_uploaders, directory, writes, manifest_by_ts,
                    timestamps_by_epoch, pc, cycle, running,
                    s3_upload_queue, uploaders, bucket, job, cur, pending,
                    after, scratch, selected, list_, exc, exit_status,
                    enqueued, seen, dequeued, attempts, connects, published >>

\* an entry at which an exception leaves the loop and the try block
ScanRaise(path) ==
    /\ pc = "scan"
    /\ running = DriverTask
    /\ path \in todo
    /\ Examine(path).kind = "raise"
    /\ exc' = Examine(path).exc
    /\ cur' = [ts0 |-> int(path[1]).val, stem |-> path[1],
               manifest |-> directory[path[1]].manifest, epoch |-> 0]
    /\ after' = "raise"
    /\ pc' = "finally"
    /\ UNCHANGED << s3_uploaders, directory, writes, manifest_by_ts,
                    timestamps_by_epoch, cycle, running, s3_upload_queue,
                    uploaders, bucket, job, todo, pending, scratch,
                    selected, list_, exit_status, enqueued, seen, dequeued,
                    attempts, connects, published >>

\* lines 126-130: the archive is extracted; its regular files await their put
ScanExtract(path) ==
    /\ pc = "scan"
    /\ running = DriverTask
    /\ path \in todo
    /\ Examine(path).kind = "extract"
    /\ LET zipdir == tmpdir \o << path[1] >>
           new == extracted(zipdir, directory[path[1]].zip)
       IN  /\ scratch' = created(scratch, new)
           /\ pending' = { p \in children(new, zipdir) : new[p] = "file" }
    /\ cur' = [ts0 |-> int(path[1]).val, stem |-> path[1],
               manifest |-> directory[path[1]].manifest,
               epoch |-> field(directory[path[1]].manifest.epoch).dt]
    /\ todo' = todo \ {path}
    /\ pc' = "put_files"
    /\ UNCHANGED << s3_uploaders, directory, writes, manifest_by_ts,
                    timestamps_by_epoch, cycle, running, s3_upload_queue,
                    uploaders, bucket, job, after, selected, list_, exc,
                    exit_status, enqueued, seen, dequeued, attempts,
                    connects, published >>

\* a put that goes to the head of the queue
put_first(q, item) == << item >> \o q

\* Queue.put(item) on a queue with room: the item goes to the tail
put(q, item) == Append(q, item)

\* whether run() can go on from an await of queue.put: it holds the thread,
\* or nobody does, and the queue has room
CanPut ==
    /\ running \in {DriverTask, Idle}
    /\ ~full(s3_upload_queue)

\* await queue.put(...) on a full queue: run() is suspended
DriverBlocks ==
    /\ pc \in {"put_files", "put_list", "put_cache", "finally"}
    /\ ~(pc = "put_files" /\ pending = {})
    /\ running = DriverTask
    /\ full(s3_upload_queue)
    /\ running' = Idle
    /\ UNCHANGED << s3_uploaders, directory, writes, manifest_by_ts,
                    timestamps_by_epoch, pc, cycle, s3_upload_queue,
                    uploaders, bucket, job, todo, cur, pending, after,
                    scratch, selected, list_, exc, exit_status, enqueued,
                    seen, dequeued, attempts, connects, published >>

\* lines 129-132: one file of the archive is put
PutFile(path2) ==
    /\ pc = "put_files"
    /\ path2 \in pending
    /\ CanPut
    /\ s3_upload_queue' = put(s3_upload_queue, FileJob(path2, cur.ts0, tmpdir))
    /\ enqueued' = Append(enqueued, FileJob(path2, cur.ts0, tmpdir))
    /\ pending' = pending \ {path2}
    /\ running' = DriverTask
    /\ UNCHANGED << s3_uploaders, directory, writes, manifest_by_ts,
                    timestamps_by_epoch, pc, cycle, uploaders, bucket, job,
                    todo, cur, after, scratch, selected, list_, exc,
                    exit_status, seen, dequeued, attempts, connects,
                    published >>

\* manifest_by_ts[ts0] = manifest
registered(store, ts0, manifest) ==
    [t \in DOMAIN store \cup {ts0} |-> IF t = ts0 THEN manifest ELSE store[t]]

\* an assignment of a new set in place of setdefault(...).add(...)
grouped_replaced(index, epoch, ts0) ==
    [e \in DOMAIN index \cup {epoch} |-> IF e = epoch THEN {ts0} ELSE index[e]]

\* timestamps_by_epoch.setdefault(epoch, set()).add(ts0)
grouped(index, epoch, ts0) ==
    [e \in DOMAIN index \cup {epoch} |->
        IF e = epoch
        THEN (IF e \in DOMAIN index THEN index[e] ELSE {}) \cup {ts0}
        ELSE index[e]]

\* a loop that is left before its first put
all_put_early(files) == TRUE

\* lines 129-132: the for loop over zipdir.iterdir() is exhausted
all_put(files) == files = {}

\* lines 133-134: the manifest is registered after its last put
Register ==
    /\ pc = "put_files"
    /\ all_put(pending)
    /\ running = DriverTask
    /\ manifest_by_ts' = registered(manifest_by_ts, cur.ts0, cur.manifest)
    /\ timestamps_by_epoch' = grouped(timestamps_by_epoch, cur.epoch, cur.ts0)
    /\ cur' = NoCur
    /\ pc' = "scan"
    /\ UNCHANGED << s3_uploaders, directory, writes, cycle, running,
                    s3_upload_queue, uploaders, bucket, job, todo, pending,
                    after, scratch, selected, list_, exc, exit_status,
                    enqueued, seen, dequeued, attempts, connects, published >>

\* the for loop is exhausted
ScanDone ==
    /\ pc = "scan"
    /\ running = DriverTask
    /\ todo = {}
    /\ pc' = "select"
    /\ UNCHANGED << s3_uploaders, directory, writes, manifest_by_ts,
                    timestamps_by_epoch, cycle, running, s3_upload_queue,
                    uploaders, bucket, job, todo, cur, pending, after,
                    scratch, selected, list_, exc, exit_status, enqueued,
                    seen, dequeued, attempts, connects, published >>

\* max_epoch = max(timestamps_by_epoch.keys())
max_epoch(index) == max(DOMAIN index)

\* list_ = [str(ts) for ts in sorted(timestamps)]
index_list(timestamps) ==
    [k \in 1 .. Len(sorted(timestamps)) |-> str(sorted(timestamps)[k])]

\* lines 135-138: max() of no keys raises ValueError, and the loop continues
SelectEmpty ==
    /\ pc = "select"
    /\ running = DriverTask
    /\ DOMAIN timestamps_by_epoch = {}
    /\ after' = "continue"
    /\ pc' = "finally"
    /\ UNCHANGED << s3_uploaders, directory, writes, manifest_by_ts,
                    timestamps_by_epoch, cycle, running, s3_upload_queue,
                    uploaders, bucket, job, todo, cur, pending, scratch,
                    selected, list_, exc, exit_status, enqueued, seen,
                    dequeued, attempts, connects, published >>

\* lines 139-143: the list of the greatest epoch is dumped into list.json
WriteIndex ==
    /\ pc = "select"
    /\ running = DriverTask
    /\ DOMAIN timestamps_by_epoch # {}
    /\ selected' = max_epoch(timestamps_by_epoch)
    /\ list_' = index_list(timestamps_by_epoch[max_epoch(timestamps_by_epoch)])
    /\ published' = Append(published,
          << max_epoch(timestamps_by_epoch),
             index_list(timestamps_by_epoch[max_epoch(timestamps_by_epoch)]) >>)
    /\ scratch' = created(scratch, [p \in {tmpdir \o << ListJsonName >>} |-> "file"])
    /\ pc' = "put_list"
    /\ UNCHANGED << s3_uploaders, directory, writes, manifest_by_ts,
                    timestamps_by_epoch, cycle, running, s3_upload_queue,
                    uploaders, bucket, job, todo, cur, pending, after, exc,
                    exit_status, enqueued, seen, dequeued, attempts,
                    connects >>

\* line 142: list.json cannot be opened for writing
WriteIndexFails ==
    /\ pc = "select"
    /\ running = DriverTask
    /\ DOMAIN timestamps_by_epoch # {}
    /\ exc' = "OSError"
    /\ after' = "raise"
    /\ pc' = "finally"
    /\ UNCHANGED << s3_uploaders, directory, writes, manifest_by_ts,
                    timestamps_by_epoch, cycle, running, s3_upload_queue,
                    uploaders, bucket, job, todo, cur, pending, scratch,
                    selected, list_, exit_status, enqueued, seen, dequeued,
                    attempts, connects, published >>

ListJob == << tmpdir \o << ListJsonName >>, KeyListJson >>
CacheJob == << indexer_cache, KeyIndexerScores >>

\* lines 144-145
PutList ==
    /\ pc = "put_list"
    /\ CanPut
    /\ s3_upload_queue' = put(s3_upload_queue, ListJob)
    /\ enqueued' = Append(enqueued, ListJob)
    /\ running' = DriverTask
    /\ pc' = "put_cache"
    /\ UNCHANGED << s3_uploaders, directory, writes, manifest_by_ts,
                    timestamps_by_epoch, cycle, uploaders, bucket, job,
                    todo, cur, pending, after, scratch, selected, list_,
                    exc, exit_status, seen, dequeued, attempts, connects,
                    published >>

\* lines 146-148: the try block ends normally
PutCache ==
    /\ pc = "put_cache"
    /\ CanPut
    /\ s3_upload_queue' = put(s3_upload_queue, CacheJob)
    /\ enqueued' = Append(enqueued, CacheJob)
    /\ running' = DriverTask
    /\ after' = "fallthrough"
    /\ pc' = "finally"
    /\ UNCHANGED << s3_uploaders, directory, writes, manifest_by_ts,
                    timestamps_by_epoch, cycle, uploaders, bucket, job,
                    todo, cur, pending, scratch, selected, list_, exc,
                    exit_status, seen, dequeued, attempts, connects,
                    published >>

\* line 150: the sentinel is put; line 151 then suspends run() in gather
PutSentinel ==
    /\ pc = "finally"
    /\ CanPut
    /\ s3_upload_queue' = put(s3_upload_queue, None)
    /\ enqueued' = Append(enqueued, None)
    /\ running' = Idle
    /\ pc' = "gather"
    /\ UNCHANGED << s3_uploaders, directory, writes, manifest_by_ts,
                    timestamps_by_epoch, cycle, uploaders, bucket, job,
                    todo, cur, pending, after, scratch, selected, list_,
                    exc, exit_status, seen, dequeued, attempts, connects,
                    published >>

\* where run() goes when the finally block is over
leave(how) ==
    IF how = "continue" THEN "start"
    ELSE IF how = "fallthrough" THEN "sleep"
    ELSE "raised"

\* a gather that waits for no task
gathered_unawaited(tasks) == TRUE

\* line 151: asyncio.gather(*uploaders, return_exceptions=True) is over when
\* every task has returned or raised
gathered(tasks) == \A i \in DOMAIN tasks : tasks[i] \in {"finished", "crashed"}

\* lines 151-153: every uploader task is over; the temporary directory goes
GatherDone ==
    /\ pc = "gather"
    /\ running = Idle
    /\ gathered(uploaders)
    /\ scratch' = rm_rf(scratch, tmpdir)
    /\ pc' = leave(after)
    /\ running' = IF leave(after) = "sleep" THEN Idle ELSE DriverTask
    /\ UNCHANGED << s3_uploaders, directory, writes, manifest_by_ts,
                    timestamps_by_epoch, cycle, s3_upload_queue, uploaders,
                    bucket, job, todo, cur, pending, after, selected, list_,
                    exc, exit_status, enqueued, seen, dequeued, attempts,
                    connects, published >>

\* line 154: asyncio.sleep(10) is over
Sleep ==
    /\ pc = "sleep"
    /\ running = Idle
    /\ pc' = "start"
    /\ running' = DriverTask
    /\ UNCHANGED << s3_uploaders, directory, writes, manifest_by_ts,
                    timestamps_by_epoch, cycle, s3_upload_queue, uploaders,
                    bucket, job, todo, cur, pending, after, scratch,
                    selected, list_, exc, exit_status, enqueued, seen,
                    dequeued, attempts, connects, published >>

\* the classes "except Exception" of main() catches
Exceptions ==
    {"UnicodeDecodeError", "TypeError", "AssertionError", "FileNotFoundError",
     "BadZipFile", "OSError", "KeyError", "ValueError"}

\* main(): 1 after an exception of run(), which never returns otherwise
main(e) == IF e \in Exceptions THEN 1 ELSE 0

\* cmd/__init__.py lines 43-54: the exception reaches main(); sys.exit
Exit ==
    /\ pc = "raised"
    /\ running = DriverTask
    /\ exit_status' = main(exc)
    /\ pc' = "exited"
    /\ running' = Idle
    /\ UNCHANGED << s3_uploaders, directory, writes, manifest_by_ts,
                    timestamps_by_epoch, cycle, s3_upload_queue, uploaders,
                    bucket, job, todo, cur, pending, after, scratch,
                    selected, list_, exc, enqueued, seen, dequeued,
                    attempts, connects, published >>

\* ------------------------------------------------------------------------
\* upload_to_s3(): one uploader task
\* ------------------------------------------------------------------------
\* lines 58-71, from "await queue.get()" to the next await that suspends:
\* the task waits on an empty queue; it takes None, counts it and goes to
\* put it back; or it takes a job and starts the connection or the upload.
\* q is the queue and b whether the task has its bucket.
at_get(q, b) ==
    IF q = << >> THEN "get"
    ELSE IF Head(q) = None THEN "put_back"
    ELSE IF b THEN "upload" ELSE "connect"

\* a get that leaves the item in the queue
get_rest_peek(q) == q

\* Queue.get(): what stays in the queue when its head is taken
get_rest(q) == Tail(q)

Loop(i, b) ==
    /\ uploaders' = [uploaders EXCEPT ![i] = at_get(s3_upload_queue, b)]
    /\ s3_upload_queue' =
          IF s3_upload_queue = << >> THEN s3_upload_queue
          ELSE get_rest(s3_upload_queue)
    /\ job' = [job EXCEPT ![i] =
          IF at_get(s3_upload_queue, b) \in {"upload", "connect"}
          THEN Head(s3_upload_queue) ELSE None]
    /\ seen' = [seen EXCEPT ![i] =
          IF at_get(s3_upload_queue, b) = "put_back" THEN @ + 1 ELSE @]
    /\ dequeued' =
          IF at_get(s3_upload_queue, b) \in {"upload", "connect"}
          THEN Append(dequeued, Head(s3_upload_queue)) ELSE dequeued

\* the log of attempts after the attempt at job j ended as how
ended(log, j, how) ==
    [x \in DOMAIN log \cup {j} |->
        IF x = j
        THEN Append(IF j \in DOMAIN log THEN log[j] ELSE << >>, how)
        ELSE log[x]]

\* the jobs of this cycle with an attempt that raised
Failed ==
    { j \in DOMAIN attempts :
        \E k \in 1 .. Len(attempts[j]) : attempts[j][k] = "failed" }

failures == Cardinality(Failed)

\* a handler that catches nothing
handled_never(e) == FALSE

\* line 74: "except Exception" catches what the remote store raises, but
\* not a BaseException such as CancelledError
handled(e) == e \notin {"CancelledError", "KeyboardInterrupt", "SystemExit"}

\* lines 51-58: the task runs for the first time; the session is made and
\* the loop entered, or the constructor raises and the task is over
WorkerStart(i, ok) ==
    /\ i \in DOMAIN uploaders
    /\ uploaders[i] = "created"
    /\ running = Idle
    /\ IF ok THEN Loop(i, FALSE)
       ELSE /\ uploaders' = [uploaders EXCEPT ![i] = "crashed"]
            /\ UNCHANGED << s3_upload_queue, job, seen, dequeued >>
    /\ UNCHANGED << s3_uploaders, directory, writes, manifest_by_ts,
                    timestamps_by_epoch, pc, cycle, running, bucket, todo,
                    cur, pending, after, scratch, selected, list_, exc,
                    exit_status, enqueued, attempts, connects, published >>

\* line 59: an item arrives for the task that waits in queue.get()
Get(i) ==
    /\ i \in DOMAIN uploaders
    /\ uploaders[i] = "get"
    /\ running = Idle
    /\ s3_upload_queue # << >>
    /\ Loop(i, bucket[i])
    /\ UNCHANGED << s3_uploaders, directory, writes, manifest_by_ts,
                    timestamps_by_epoch, pc, cycle, running, bucket, todo,
                    cur, pending, after, scratch, selected, list_, exc,
                    exit_status, enqueued, attempts, connects, published >>

\* a task that returns without putting None back
put_back_dropped(q) == q

\* what the task puts back before it returns
put_back(q) == Append(q, None)

\* lines 61-63: None is put back and the task returns
PutBack(i) ==
    /\ i \in DOMAIN uploaders
    /\ uploaders[i] = "put_back"
    /\ running = Idle
    /\ ~full(s3_upload_queue)
    /\ s3_upload_queue' = put_back(s3_upload_queue)
    /\ uploaders' = [uploaders EXCEPT ![i] = "finished"]
    /\ UNCHANGED << s3_uploaders, directory, writes, manifest_by_ts,
                    timestamps_by_epoch, pc, cycle, running, bucket, job,
                    todo, cur, pending, after, scratch, selected, list_,
                    exc, exit_status, enqueued, seen, dequeued, attempts,
                    connects, published >>

\* lines 67-70: session.resource('s3') is entered and s3.Bucket(...) gives
\* the handle, or one of the two raises (lines 74-77) and the loop goes on
Connect(i, ok) ==
    /\ i \in DOMAIN uploaders
    /\ uploaders[i] = "connect"
    /\ running = Idle
    /\ ok \/ failures < MaxFailures
    /\ connects' = [connects EXCEPT ![i] = @ + 1]
    /\ bucket' = [bucket EXCEPT ![i] = ok]
    /\ IF ok
       THEN /\ uploaders' = [uploaders EXCEPT ![i] = "upload"]
            /\ UNCHANGED << s3_upload_queue, job, seen, dequeued, attempts >>
       ELSE /\ attempts' = ended(attempts, job[i], "failed")
            /\ IF handled("ClientError") THEN Loop(i, FALSE)
               ELSE /\ uploaders' = [uploaders EXCEPT ![i] = "crashed"]
                    /\ UNCHANGED << s3_upload_queue, job, seen, dequeued >>
    /\ UNCHANGED << s3_uploaders, directory, writes, manifest_by_ts,
                    timestamps_by_epoch, pc, cycle, running, todo, cur,
                    pending, after, scratch, selected, list_, exc,
                    exit_status, enqueued, published >>

\* lines 71-77: bucket.upload_file(...) returns or raises; the loop goes on
Upload(i, ok) ==
    /\ i \in DOMAIN uploaders
    /\ uploaders[i] = "upload"
    /\ running = Idle
    /\ ok \/ failures < MaxFailures
    /\ attempts' = ended(attempts, job[i], IF ok THEN "uploaded" ELSE "failed")
    /\ IF ok \/ handled("ClientError") THEN Loop(i, TRUE)
       ELSE /\ uploaders' = [uploaders EXCEPT ![i] = "crashed"]
            /\ UNCHANGED << s3_upload_queue, job, seen, dequeued >>
    /\ UNCHANGED << s3_uploaders, directory, writes, manifest_by_ts,
                    timestamps_by_epoch, pc, cycle, running, bucket, todo,
                    cur, pending, after, scratch, selected, list_, exc,
                    exit_status, enqueued, connects, published >>

Driver ==
    \/ Start
    \/ \E path \in todo : ScanSkip(path)
    \/ \E path \in todo : ScanRaise(path)
    \/ \E path \in todo : ScanExtract(path)
    \/ DriverBlocks
    \/ \E path2 \in pending : PutFile(path2)
    \/ Register
    \/ ScanDone
    \/ SelectEmpty
    \/ WriteIndex
    \/ WriteIndexFails
    \/ PutList
    \/ PutCache
    \/ PutSentinel
    \/ GatherDone
    \/ Sleep
    \/ Exit

Worker(i) ==
    \/ \E ok \in BOOLEAN : WorkerStart(i, ok)
    \/ Get(i)
    \/ PutBack(i)
    \/ \E ok \in BOOLEAN : Connect(i, ok)
    \/ \E ok \in BOOLEAN : Upload(i, ok)

Producer == \E stem \in Stems : \E snap \in Snapshots(stem) : Write(stem, snap)

Next ==
    \/ Driver
    \/ \E i \in DOMAIN uploaders : \E ok \in BOOLEAN : WorkerStart(i, ok)
    \/ \E i \in DOMAIN uploaders : Get(i)
    \/ \E i \in DOMAIN uploaders : PutBack(i)
    \/ \E i \in DOMAIN uploaders : \E ok \in BOOLEAN : Connect(i, ok)
    \/ \E i \in DOMAIN uploaders : \E ok \in BOOLEAN : Upload(i, ok)
    \/ Producer

Spec == Init /\ [][Next]_vars

\* The event loop runs every task that can run; every call to the remote
\* store returns or raises.  The producer of the directory owes nothing.
Progress == Driver \/ \E i \in DOMAIN uploaders : Worker(i)

FairSpec == Spec /\ WF_vars(Progress)

\* ------------------------------------------------------------------------
\* Properties
\* ------------------------------------------------------------------------
\* the finally block of the current cycle is over
Drained == cycle >= 1 /\ pc \in {"start", "sleep", "raised", "exited"}

NoCrash == \A i \in DOMAIN uploaders : uploaders[i] # "crashed"

\* C1: with N >= 1 uploader tasks, none of which has crashed, the single
\* None that run() puts is taken once by every task, put back by it, and
\* all N tasks return: when gather is over every task has finished after
\* exactly one None, the queue holds that None again, and once run() waits
\* in gather the wait ends.
C1_Shutdown ==
    /\ [](\A i \in DOMAIN uploaders : seen[i] <= 1)
    /\ []((Drained /\ s3_uploaders >= 1 /\ NoCrash) =>
            /\ DOMAIN uploaders = 0 .. s3_uploaders - 1
            /\ \A i \in DOMAIN uploaders : uploaders[i] = "finished" /\ seen[i] = 1
            /\ Cardinality({i \in DOMAIN uploaders : uploaders[i] = "finished"})
                 = s3_uploaders
            /\ s3_upload_queue = << None >>
            /\ Len(SelectSeq(enqueued, LAMBDA item : item = None)) = 1)
    /\ ((pc = "gather" /\ s3_uploaders >= 1) ~> Drained)

C1_Witness ==
    /\ Drained
    /\ s3_uploaders = 2
    /\ \A i \in DOMAIN uploaders : uploaders[i] = "finished" /\ seen[i] = 1
    /\ Len(enqueued) > 1

\* the file jobs among the items put in this cycle, as indices of enqueued
FileJobs ==
    { k \in 1 .. Len(enqueued) :
        enqueued[k] # None /\ enqueued[k][2][1] = KeyFiles }

\* every manifest file of the directory has its timestamp in the store
AllRegistered ==
    \A stem \in Stems :
        (directory[stem].present /\ int(stem).ok)
            => int(stem).val \in DOMAIN manifest_by_ts

\* C2: a timestamp is registered at most once.  A key of the store keeps
\* its manifest for ever; an archive is extracted and a file job is put
\* only for a timestamp that is not in the store; a registration adds one
\* new key; and a scan of a directory whose manifests are all registered
\* puts nothing and leaves both dicts as they are.
C2_RegisteredOnce ==
    [][ /\ \A ts \in DOMAIN manifest_by_ts :
              /\ ts \in DOMAIN manifest_by_ts'
              /\ manifest_by_ts'[ts] = manifest_by_ts[ts]
        /\ (pc = "scan" /\ pc' = "put_files")
              => cur'.ts0 \notin DOMAIN manifest_by_ts
        /\ (Len(enqueued') = Len(enqueued) + 1 /\ Len(enqueued') \in FileJobs')
              => \A ts \in DOMAIN manifest_by_ts :
                    enqueued'[Len(enqueued')][2][2] # str(ts)
        /\ (manifest_by_ts' # manifest_by_ts
              \/ timestamps_by_epoch' # timestamps_by_epoch)
              => /\ cur.ts0 \notin DOMAIN manifest_by_ts
                 /\ DOMAIN manifest_by_ts' = DOMAIN manifest_by_ts \cup {cur.ts0}
                 /\ \A e \in DOMAIN timestamps_by_epoch :
                       cur.ts0 \notin timestamps_by_epoch[e]
        /\ (pc = "scan" /\ AllRegistered)
              => /\ manifest_by_ts' = manifest_by_ts
                 /\ timestamps_by_epoch' = timestamps_by_epoch
                 /\ enqueued' = enqueued
      ]_vars

\* the second scan of a directory whose two manifests the first registered
C2_Witness ==
    /\ cycle = 2
    /\ pc = "select"
    /\ AllRegistered
    /\ DOMAIN manifest_by_ts = {9, 10}
    /\ directory[Stem09].present
    /\ enqueued = << >>

\* C3: the list dumped in a cycle is the timestamps of the selected epoch,
\* each once, as decimal strings in ascending numeric order, and holds no
\* timestamp of another epoch.
C3_Index ==
    list_ # << >> =>
        LET T == timestamps_by_epoch[selected]
        IN  /\ Len(list_) = Cardinality(T)
            /\ \A ts \in T : \E k \in 1 .. Len(list_) : list_[k] = str(ts)
            /\ \A k \in 1 .. Len(list_) : \E ts \in T : list_[k] = str(ts)
            /\ \A j, k \in 1 .. Len(list_) :
                  j < k => IntOf(list_[j]) < IntOf(list_[k])
            /\ \A e \in DOMAIN timestamps_by_epoch \ {selected} :
                  \A ts \in timestamps_by_epoch[e] :
                     \A k \in 1 .. Len(list_) : list_[k] # str(ts)

C3_Witness ==
    /\ list_ = << Stem9, Stem10 >>
    /\ pc = "gather"

\* the epoch of a registered manifest, as an instant
epoch_of(ts) == parse_timestamp(manifest_by_ts[ts].epoch).dt

\* C4: the epoch selected in a cycle is E exactly when some registered
\* manifest has epoch E and no registered manifest has a greater epoch.
C4_Selected ==
    list_ # << >> =>
        \A E \in {selected} \cup { epoch_of(ts) : ts \in DOMAIN manifest_by_ts } :
            (selected = E) <=>
                /\ \E ts \in DOMAIN manifest_by_ts : epoch_of(ts) = E
                /\ ~ \E ts \in DOMAIN manifest_by_ts : epoch_of(ts) > E

\* two epochs are registered and the later one is selected
C4_Witness ==
    /\ list_ # << >>
    /\ \E ts \in DOMAIN manifest_by_ts : epoch_of(ts) < selected
    /\ \E ts \in DOMAIN manifest_by_ts :
          epoch_of(ts) = selected /\ manifest_by_ts[ts].epoch = EpochB

\* round(issuanceDate * 1000) of a manifest whose issuanceDate parses
issued_ms(manifest) == round_ms(parse_timestamp(manifest.issuanceDate).dt)

\* the three fields of a loaded manifest parse
WellFormed(manifest) ==
    /\ manifest.load = "ok"
    /\ \A s \in {manifest.epoch, manifest.issuanceDate, manifest.effectiveDate} :
          s.fmt \in {"frac", "whole"}

\* a directory entry that the scan reads and whose issuanceDate, in rounded
\* milliseconds, is not the integer of its file name
Mismatched(path) ==
    /\ path[2] = NameJson
    /\ int(path[1]).ok
    /\ int(path[1]).val \notin DOMAIN manifest_by_ts
    /\ WellFormed(directory[path[1]].manifest)
    /\ issued_ms(directory[path[1]].manifest) # int(path[1]).val

\* C5: a manifest whose issuanceDate, in rounded milliseconds, differs from
\* the integer of its file name is never registered, nothing of its archive
\* is extracted or put, and the scan does not pass it over: the assert
\* raises, the finally block drains the queue and removes the temporary
\* directory, no further cycle starts, and main() returns 1.
C5_Mismatch ==
    /\ [](/\ \A ts \in DOMAIN manifest_by_ts :
                WellFormed(manifest_by_ts[ts]) /\ issued_ms(manifest_by_ts[ts]) = ts
          /\ pc = "put_files" => issued_ms(cur.manifest) = cur.ts0
          /\ exc = "AssertionError" =>
                /\ after = "raise"
                /\ pc \in {"finally", "gather", "raised", "exited"}
                /\ issued_ms(cur.manifest) # cur.ts0
                /\ cur.ts0 \notin DOMAIN manifest_by_ts
                /\ \A k \in FileJobs : enqueued[k][1][2] # cur.stem
          /\ (exc = "AssertionError" /\ pc \in {"raised", "exited"}) =>
                /\ enqueued[Len(enqueued)] = None
                /\ \A i \in DOMAIN uploaders :
                      uploaders[i] \in {"finished", "crashed"}
                /\ DOMAIN scratch = {}
          /\ (exc = "AssertionError" /\ pc = "exited") => exit_status # 0)
    /\ [][ \A path \in todo :
              (pc = "scan" /\ Mismatched(path) /\ cycle' = cycle)
                 => /\ path \in todo'
                    /\ pc' \in {"scan", "put_files", "finally"}
         ]_vars

\* a mismatch found after another manifest was registered in the same scan
C5_Witness ==
    /\ exc = "AssertionError"
    /\ pc = "exited"
    /\ exit_status = 1
    /\ DOMAIN manifest_by_ts = {10}
    /\ Len(enqueued) > 1
    /\ s3_uploaders = 2

\* a manifest that cannot be loaded, lacks a field, or has a field that is a
\* string in neither timestamp format
Unusable(manifest) ==
    \/ manifest.load # "ok"
    \/ \E s \in {manifest.epoch, manifest.issuanceDate, manifest.effectiveDate} :
          s.fmt \in {"missing", "garbage"}

\* C6: a manifest that cannot be loaded, lacks epoch, issuanceDate or
\* effectiveDate, or has one of them in an unparseable format is skipped:
\* it is neither extracted nor registered, and it never ends the scan with
\* an exception.
C6_Skipped ==
    ~ (cur.stem # << >> /\ Unusable(cur.manifest))

\* C7: when the archive of a manifest is missing or corrupt, only that
\* manifest is left out: no exception leaves the scan, which goes on to
\* the remaining entries and to the selection.
C7_ArchiveFailure ==
    ~ (/\ after = "raise"
       /\ cur.stem # << >>
       /\ directory[cur.stem].zip.state # "ok"
       /\ exc \in {"FileNotFoundError", "BadZipFile"})

\* C8: between two consecutive starts of a cycle run() sleeps, on the
\* empty-store path as on the publishing path.
C8_SleepBetweenStarts ==
    [][ (pc' = "start" /\ pc # "start") => pc = "sleep" ]_vars

\* C9 as stated: the queue never holds more than 4 x s3_uploaders items,
\* whatever integer s3_uploaders is.
C9_AnyWorkerCount ==
    Len(s3_upload_queue) <= 4 * s3_uploaders

\* C9, amended: for s3_uploaders >= 1 the queue never holds more than
\* 4 x s3_uploaders items: a put that finds it at that size suspends run().
C9_Bound ==
    s3_uploaders >= 1 => Len(s3_upload_queue) <= 4 * s3_uploaders

\* run() is suspended at a put on a queue that holds 4 x s3_uploaders items
C9_Witness ==
    /\ s3_uploaders = 1
    /\ Len(s3_upload_queue) = 4
    /\ pc \in {"put_list", "put_cache", "finally"}
    /\ running = Idle

\* C10: whenever the finally block is over (before the next start, and
\* before an exception goes on to main) the last item put is None, every
\* uploader task is over and nothing of the temporary directory is left;
\* no two temporary directories exist at once, and during a cycle the only
\* one is the cycle's own.
C10_Cleanup ==
    /\ Drained =>
          /\ enqueued # << >>
          /\ enqueued[Len(enqueued)] = None
          /\ \A i \in DOMAIN uploaders : uploaders[i] \in {"finished", "crashed"}
          /\ DOMAIN scratch = {}
    /\ pc = "start" =>
          \A i \in DOMAIN uploaders : uploaders[i] \in {"finished", "crashed"}
    /\ Cardinality({ p \in DOMAIN scratch : Len(p) = 1 }) <= 1
    /\ \A p \in DOMAIN scratch : p[1] = TmpName(cycle)
    /\ (pc = "raised" /\ exc = "") => FALSE

\* an exception leaves the second cycle after files were extracted and put
C10_Witness ==
    /\ pc = "raised"
    /\ cycle = 2
    /\ s3_uploaders = 2
    /\ FileJobs # {}
    /\ DOMAIN scratch = {}

\* the items of a sequence
Range(q) == { q[k] : k \in 1 .. Len(q) }

\* C11: a connection or an upload that raises for one job does not end the
\* uploader task and changes neither dict: the task goes on in its loop.
\* The failed job is in no queue and in no task's hands afterwards, no
\* item is put into a queue twice and no job is attempted twice.
C11_FailureSkipped ==
    /\ [](/\ \A j \in DOMAIN attempts : Len(attempts[j]) <= 1
          /\ \A k1, k2 \in 1 .. Len(enqueued) :
                enqueued[k1] = enqueued[k2] => k1 = k2
          /\ \A j \in Failed :
                /\ j \notin Range(s3_upload_queue)
                /\ \A i \in DOMAIN job : job[i] # j)
    /\ [][ ~(Failed' \subseteq Failed) =>
              /\ \E i \in DOMAIN uploaders :
                    /\ Failed' = Failed \cup {job[i]}
                    /\ uploaders[i] \in {"connect", "upload"}
                    /\ uploaders'[i] \in {"get", "put_back", "connect", "upload"}
                    /\ \A k \in DOMAIN uploaders \ {i} : uploaders'[k] = uploaders[k]
              /\ manifest_by_ts' = manifest_by_ts
              /\ timestamps_by_epoch' = timestamps_by_epoch
              /\ enqueued' = enqueued
         ]_vars

\* the only task fails at its first job, uploads the second and returns
C11_Witness ==
    /\ s3_uploaders = 1
    /\ Len(dequeued) >= 2
    /\ dequeued[1] \in DOMAIN attempts
    /\ attempts[dequeued[1]] = << "failed" >>
    /\ dequeued[2] \in DOMAIN attempts
    /\ attempts[dequeued[2]] = << "uploaded" >>
    /\ uploaders[0] = "finished"
    /\ DOMAIN manifest_by_ts # {}

\* where the jobs for api/scores/list.json, for api/scores/indexer-scores
\* and None stand among the items put in this cycle
ListAt == { k \in 1 .. Len(enqueued) :
              enqueued[k] # None /\ enqueued[k][2] = KeyListJson }
CacheAt == { k \in 1 .. Len(enqueued) :
               enqueued[k] # None /\ enqueued[k][2] = KeyIndexerScores }
NoneAt == { k \in 1 .. Len(enqueued) : enqueued[k] = None }

\* the for loop of this cycle was exhausted
ScanCompleted ==
    \/ pc \in {"select", "put_list", "put_cache"}
    \/ pc \in {"finally", "gather"} /\ after \in {"continue", "fallthrough"}
    \/ pc \in {"finally", "gather"} /\ after = "raise" /\ exc = "OSError"

\* the items put in this cycle are in the order: file jobs, the job for
\* list.json, the job for indexer-scores, None; each of the last three at
\* most once, and indexer-scores only right after list.json
IndexJobsInOrder ==
    /\ Cardinality(ListAt) <= 1
    /\ Cardinality(CacheAt) <= 1
    /\ Cardinality(NoneAt) <= 1
    /\ \A f \in FileJobs : \A k \in ListAt \cup CacheAt \cup NoneAt : f < k
    /\ \A c \in CacheAt : c - 1 \in ListAt
    /\ \A n \in NoneAt : \A k \in ListAt \cup CacheAt : k < n
    /\ ListAt \cup CacheAt \cup NoneAt \cup FileJobs = 1 .. Len(enqueued)

\* C12 as stated: in every cycle whose scan completes with a non-empty
\* store, None is put only after one job for list.json and one job for
\* indexer-scores.
C12_EveryCycle ==
    (pc = "gather" /\ ScanCompleted /\ DOMAIN manifest_by_ts # {})
        => (Cardinality(ListAt) = 1 /\ Cardinality(CacheAt) = 1)

\* C12, amended: in every cycle whose scan completes with a non-empty store
\* and in which the writing of list.json does not raise, exactly one job
\* for list.json and then exactly one for indexer-scores are put, after
\* every file job of the cycle and before None, whether or not a manifest
\* was registered in the cycle; with an empty store neither is put.
C12_IndexJobs ==
    /\ IndexJobsInOrder
    /\ (pc = "gather" /\ ScanCompleted /\ DOMAIN manifest_by_ts # {}
          /\ after # "raise")
          => /\ after = "fallthrough"
             /\ Cardinality(ListAt) = 1
             /\ Cardinality(CacheAt) = 1
             /\ Len(enqueued) >= 3
             /\ enqueued[Len(enqueued) - 2] = ListJob
             /\ enqueued[Len(enqueued) - 1] = CacheJob
             /\ enqueued[Len(enqueued)] = None
    /\ (pc = "gather" /\ ScanCompleted /\ DOMAIN manifest_by_ts = {})
          => (after = "continue" /\ enqueued = << None >>)
    /\ (pc = "gather" /\ after = "continue") => DOMAIN manifest_by_ts = {}

\* the second cycle registers nothing and puts the two jobs all the same
C12_Witness ==
    /\ pc = "gather"
    /\ cycle = 2
    /\ DOMAIN manifest_by_ts = {9}
    /\ enqueued = << ListJob, CacheJob, None >>

\* the regular files at the top of the directory a manifest's archive was
\* extracted into in this cycle
ExtractedFiles(stem) ==
    { p \in children(scratch, tmpdir \o << stem >>) : scratch[p] = "file" }

\* every regular file extracted for the manifest has its job among the
\* items put in this cycle, one job for each file of the archive
FilesEnqueued(stem) ==
    /\ \A p \in ExtractedFiles(stem) :
          FileJob(p, int(stem).val, tmpdir) \in Range(enqueued)
    /\ Cardinality({ k \in FileJobs : enqueued[k][1][2] = stem })
          = directory[stem].zip.files

\* C13: a timestamp enters the store only after every file job of its
\* archive was put; while the jobs of a manifest are being put, also when
\* run() is suspended at one of these puts, its timestamp is in neither
\* dict.
C13_EnqueueBeforeRegister ==
    /\ [](\A stem \in Stems :
            (/\ tmpdir \o << stem >> \in DOMAIN scratch
             /\ int(stem).val \in DOMAIN manifest_by_ts
             /\ ~(pc = "put_files" /\ cur.stem = stem))
                => FilesEnqueued(stem))
    /\ [](pc = "put_files" =>
            /\ cur.ts0 \notin DOMAIN manifest_by_ts
            /\ \A e \in DOMAIN timestamps_by_epoch :
                  cur.ts0 \notin timestamps_by_epoch[e])
    /\ [][ manifest_by_ts' # manifest_by_ts =>
              /\ pending = {}
              /\ FilesEnqueued(cur.stem)
              /\ enqueued' = enqueued
         ]_vars

\* one manifest is registered, with the two jobs of its archive put, and
\* the second has one of its two jobs put and one to go
C13_Witness ==
    /\ pc = "put_files"
    /\ Cardinality(pending) = 1
    /\ Cardinality(DOMAIN manifest_by_ts) = 1
    /\ Len(enqueued) = 3
    /\ cur.ts0 \notin DOMAIN manifest_by_ts
    /\ \E k \in FileJobs : enqueued[k][1][2] = cur.stem

\* every uploader task of the cycle is over
AllOver ==
    \A i \in DOMAIN uploaders : uploaders[i] \in {"finished", "crashed"}

\* C14: whatever subset of the uploader tasks has crashed, the puts of
\* run(), the put of None among them, and the gather complete: run() never
\* waits at a put on a full queue when no task is left to take an item.
C14_CrashTolerated ==
    ~ (/\ s3_uploaders >= 1
       /\ pc \in {"put_files", "put_list", "put_cache", "finally"}
       /\ running = Idle
       /\ full(s3_upload_queue)
       /\ AllOver
       /\ \E i \in DOMAIN uploaders : uploaders[i] = "crashed")

\* the jobs of a sequence of items, in order
Jobs(q) == SelectSeq(q, LAMBDA item : item # None)

\* C15: the jobs taken from the queue are, in order, the first of the jobs
\* put, and the jobs still queued are the rest; a job taken is in the hands
\* of exactly one task or has had exactly one attempt; no task is past its
\* None while a job is queued; and when the finally block is over with
\* N >= 1 tasks, none crashed, every job put was taken and attempted once.
C15_NoJobLostOrDuplicated ==
    /\ [](/\ Len(dequeued) <= Len(Jobs(enqueued))
          /\ dequeued = SubSeq(Jobs(enqueued), 1, Len(dequeued))
          /\ Jobs(s3_upload_queue)
                = SubSeq(Jobs(enqueued), Len(dequeued) + 1, Len(Jobs(enqueued)))
          /\ \A k \in 1 .. Len(dequeued) :
                LET holders == { i \in DOMAIN job : job[i] = dequeued[k] }
                IN  \/ /\ Cardinality(holders) = 1
                       /\ dequeued[k] \notin DOMAIN attempts
                    \/ /\ holders = {}
                       /\ dequeued[k] \in DOMAIN attempts
                       /\ Len(attempts[dequeued[k]]) = 1
          /\ DOMAIN attempts \subseteq Range(dequeued)
          /\ (\E i \in DOMAIN uploaders : uploaders[i] \in {"put_back", "finished"})
                => Jobs(s3_upload_queue) = << >>
          /\ (Drained /\ s3_uploaders >= 1 /\ NoCrash)
                => /\ dequeued = Jobs(enqueued)
                   /\ DOMAIN attempts = Range(Jobs(enqueued))
                   /\ \A i \in DOMAIN job : job[i] = None)
    /\ [][ dequeued' # dequeued /\ cycle' = cycle =>
              /\ s3_upload_queue # << >>
              /\ dequeued' = Append(dequeued, Head(s3_upload_queue))
              /\ s3_upload_queue' = Tail(s3_upload_queue)
              /\ Cardinality({ i \in DOMAIN job :
                                 job'[i] = Head(s3_upload_queue) }) = 1
         ]_vars

\* two tasks, neither crashed, have taken and attempted five jobs
C15_Witness ==
    /\ Drained
    /\ s3_uploaders = 2
    /\ NoCrash
    /\ Len(dequeued) >= 5
    /\ dequeued = Jobs(enqueued)

\* a cycle is under way
InCycle ==
    pc \in {"scan", "put_files", "select", "put_list", "put_cache",
            "finally", "gather"}

\* with N >= 1 tasks, none of which crashes, a cycle under way reaches the
\* end of its finally block
C16_Reaches ==
    (InCycle /\ s3_uploaders >= 1) ~> (Drained \/ ~NoCrash)

\* C16: with N >= 1 tasks, none of which crashes, and remote calls that
\* return or raise, every cycle that starts reaches the end of its finally
\* block, and from there run() goes to its sleep or raises.
C16_CleanupThenSleep ==
    /\ C16_Reaches
    /\ [][ (pc = "gather" /\ pc' # "gather" /\ s3_uploaders >= 1 /\ NoCrash)
              => pc' \in {"sleep", "raised"} ]_vars

\* C17: an uploader task enters session.resource('s3') at most once in its
\* life, and only for a job: never before its first job, once when it
\* handles the first, and not again for a later job, also when the first
\* connection raised.
C17_ConnectsOnce ==
    \A i \in DOMAIN connects :
        /\ connects[i] <= 1
        /\ uploaders[i] \in {"created", "crashed"} => connects[i] = 0
        /\ uploaders[i] = "upload" => connects[i] >= 1
        /\ bucket[i] => connects[i] >= 1

\* the attempt at the job for api/scores/list.json is over
ListDone == \E j \in DOMAIN attempts : j[2] = KeyListJson

\* the job for api/scores/list.json was taken from the queue
ListTaken == \E k \in 1 .. Len(dequeued) : dequeued[k][2] = KeyListJson

\* C18 as stated: with N >= 1 tasks, when the attempt at the list.json job
\* is over, the attempt at every file job put before it is over.
C18_IndexAfterFiles ==
    (s3_uploaders >= 1 /\ ListDone)
        => \A k \in FileJobs : enqueued[k] \in DOMAIN attempts

\* C18, amended: with exactly one task, when the attempt at the list.json
\* job is over, the attempt at every file job put before it is over; with
\* any number of tasks, when the list.json job is taken from the queue,
\* every file job of the cycle was taken before it.
C18_IndexAfterFilesTaken ==
    /\ (s3_uploaders = 1 /\ ListDone)
          => \A k \in FileJobs : enqueued[k] \in DOMAIN attempts
    /\ ListTaken
          => \A k \in FileJobs :
                \E d \in 1 .. Len(dequeued) :
                   /\ dequeued[d] = enqueued[k]
                   /\ \A l \in 1 .. Len(dequeued) :
                         dequeued[l][2] = KeyListJson => d < l

\* the only task has attempted two file jobs and then the list.json job
C18_Witness ==
    /\ s3_uploaders = 1
    /\ ListDone
    /\ Cardinality(FileJobs) >= 2
    /\ \A k \in FileJobs : enqueued[k] \in DOMAIN attempts

\* C19: a task that has taken None finds the queue empty, so its put of
\* None does not wait; and when the finally block is over with N >= 1
\* tasks, the queue holds None and nothing else.
C19_SentinelAlone ==
    /\ \A i \in DOMAIN uploaders :
          uploaders[i] = "put_back"
              => (s3_upload_queue = << >> /\ ~full(s3_upload_queue))
    /\ (Drained /\ s3_uploaders >= 1) => s3_upload_queue = << None >>

\* C20: from one dump of list.json to the next the selected epoch does not
\* decrease, and while it stays the same every timestamp of the earlier
\* list is in the later one; an epoch's set of timestamps only grows; and
\* every registered timestamp is in the set of exactly one epoch.
C20_Monotone ==
    /\ [](/\ \A a, b \in 1 .. Len(published) :
                a < b =>
                   /\ published[a][1] <= published[b][1]
                   /\ published[a][1] = published[b][1]
                         => Range(published[a][2]) \subseteq Range(published[b][2])
          /\ \A ts \in DOMAIN manifest_by_ts :
                Cardinality({ e \in DOMAIN timestamps_by_epoch :
                                ts \in timestamps_by_epoch[e] }) = 1
          /\ \A e \in DOMAIN timestamps_by_epoch :
                timestamps_by_epoch[e] \subseteq DOMAIN manifest_by_ts)
    /\ [][ \A e \in DOMAIN timestamps_by_epoch :
              /\ e \in DOMAIN timestamps_by_epoch'
              /\ timestamps_by_epoch[e] \subseteq timestamps_by_epoch'[e]
         ]_vars

\* the second cycle selects the epoch of the first and lists one more
\* timestamp
C20_Witness ==
    /\ Len(published) = 2
    /\ published[1][1] = published[2][1]
    /\ published[1][2] = << Stem9 >>
    /\ published[2][2] = << Stem9, Stem10 >>

====
